---- MODULE Spec2Model ----
(***************************************************************************)
(* Classroom real-time chat of the VWings24x7 backend.                     *)
(*                                                                         *)
(* Three route modules implement the chat, each with its own connection    *)
(* manager, its own message table and its own membership table:            *)
(*   "ws"         routes/classroom/ws_routes.py + services/ws_manager.py   *)
(*   "chatroom"   routes/classroom/chatroom_routes.py (member_routes.py)   *)
(*   "class_chat" routes/classroom/class_chat_routes.py                    *)
(* The modules share no state, so a behaviour of the server is an          *)
(* interleaving of independent behaviours of the three; `route` selects    *)
(* the module a behaviour runs, and every formula quantifies over it.      *)
(*                                                                         *)
(* A session is one WebSocket connection and the coroutine serving it.     *)
(* Coroutines of one event loop interleave at their await points only;     *)
(* the database calls are synchronous and run atomically with the code     *)
(* around them.  The HTTP handlers are plain functions run on worker       *)
(* threads, and their broadcasts run on threads of their own.              *)
(***************************************************************************)
EXTENDS Integers, Sequences, FiniteSets, TLC

\* ------------------------------------------------------------- bounds
NumSessions == 3    \* WebSocket connections of a behaviour of SpecWs
NumOpened == 2      \* WebSocket connections opened in a behaviour of Spec
MaxRequests == 2    \* inbound frames and HTTP requests served in a behaviour
MaxDeletes == 3     \* the same in a behaviour of SpecDelete
MaxEnquiries == 2   \* rows of admission_enquiries
MaxCommissions == 3 \* rows of commissions
MaxMonths == 2      \* months the wall clock passes through
MaxReceipts == 3    \* ids the fees_receipts table has handed out
MaxBatch == 2       \* items of one fees_in_list
MaxRosterRequests == 3 \* requests of one behaviour of the roster routes

\* ---------------------------------------------------------- constants
HistoryLimit == 50  \* ws_routes: .limit(50); chatroom_routes: limit = Query(50, ..)

\* ---------------------------------------------------------- universes
NoVal == "none"                      \* Python None / a missing field
Null == "null"                       \* a field a payload sets to null
Routes == {"ws", "chatroom", "class_chat"}
Rooms == {"c1"}                      \* the room the sessions of Spec connect to
Classes == {"c1", "c2"}              \* the classrooms of the tables
Users == {"t1", "s1", "x1"}
Sessions == 1..NumSessions
Staff == {"t1", "s1"}                \* the users whose membership changes
\* The message ids a delete request names.
MessageIds == 1..MaxRequests
\* The rows of the counsellors, courses and students tables, and those of
\* admission_codes with the counsellor each code is assigned to; the office
\* routes modelled here read them and do not write them.
Counsellors == {"k1", "k2"}
Courses == {"crs1"}
Students == {"st1", "st2"}
AdmissionCodes == [c \in {"A1", "A2", "B1"} |-> IF c = "B1" THEN "k2" ELSE "k1"]
\* courses.general_data["course_fees"]
CourseFees == [c \in Courses |-> 1000]
\* The percentages a counsellor's per_courses_commission is set to.
Percentages == {10, 20}
\* The query parameters a class_chat client connects with.
Logins == {[user |-> "t1", role |-> "teacher"], [user |-> "s1", role |-> "student"],
           [user |-> "x1", role |-> "student"]}

\* An inbound frame: its JSON shape and the fields the handlers read.  A
\* frame carries no sender fields, claims to come from teacher t1, or
\* names the role "student" only.
Frames ==
    {[kind |-> "obj", action |-> a, content |-> c, sender_id |-> q[1], sender_role |-> q[2]] :
        a \in {"send", "other"}, c \in {NoVal, "hi"},
        q \in {<<NoVal, NoVal>>, <<"t1", "teacher">>, <<NoVal, "student">>}}
    \cup
    {[kind |-> k, action |-> NoVal, content |-> NoVal, sender_id |-> NoVal,
      sender_role |-> NoVal] : k \in {"badjson", "nonobj"}}

VARIABLES
    route,        \* the route module of this behaviour
    rooms,        \* class_id of the Classroom rows that exist
    classMember,  \* class_members table: [room -> [user -> role or NoVal]]
    memberRow,    \* classroom_members table: [room -> [row, members, admins]]
    classroom,    \* classrooms columns: [room -> [admin_id, teacher_ids, student_ids]]
    active,       \* manager.active_connections / manager.active: a dict
    pc,           \* each session's place in its handler
    sess,         \* each session's path and query parameters
    cache,        \* the ORM object a handler keeps: [loaded, role, row]
    bq,           \* the broadcast a handler is in: [id, todo, idx]
    alive,        \* the client's end of the connection is open
    inbox,        \* the payloads each connection has received, in order
    messages,     \* the message table, in insertion order
    nextId,       \* next message id
    threads,      \* broadcasts running on threads of their own
    nReq,         \* inbound frames and HTTP requests served so far
    lastReq,      \* the latest of them and its reply:
                  \* [by, kind, arg, auth, status, result]
    budget,       \* the number of requests this behaviour serves
    stalled,      \* connections whose client has stopped reading
    enquiries,    \* admission_enquiries table: [enquiry_id -> row]
    commissions,  \* commissions table, in insertion order
    receipts,     \* fees_receipts table, in insertion order
    month,        \* the month of the wall clock (utcnow().strftime("%Y-%m"))
    perCoursesCommission  \* counsellors.per_courses_commission:
                  \* [counsellor -> [course -> percentage]]

vars == <<route, rooms, classMember, memberRow, classroom, active, pc, sess,
          cache, bq, alive, inbox, messages, nextId, threads, nReq, lastReq,
          budget, stalled, enquiries, commissions, receipts, month,
          perCoursesCommission>>

\* The tables of the office routes (admission enquiries, commissions, fees).
officeVars == <<enquiries, commissions, receipts, month, perCoursesCommission>>
\* What no chat handler changes.
fixedVars == <<budget, stalled, officeVars>>

dbVars == <<rooms, classMember, memberRow, classroom>>
budgetVars == <<nReq, lastReq>>

\* ------------------------------------------------------------ helpers
Range(f) == {f[i] : i \in DOMAIN f}

RemoveFirst(seq, x) ==
    LET i == CHOOSE k \in 1..Len(seq) :
                 seq[k] = x /\ \A j \in 1..(k - 1) : seq[j] # x
    IN  SubSeq(seq, 1, i - 1) \o SubSeq(seq, i + 1, Len(seq))

DropKey(f, k) == [x \in DOMAIN f \ {k} |-> f[x]]

PutKey(f, k, v) == [x \in DOMAIN f \cup {k} |-> IF x = k THEN v ELSE f[x]]

\* A payload: its type, the message id it is about, and for a history
\* payload the ids of the messages it lists, in order.
Event(type, id) == [type |-> type, id |-> id, ids |-> <<>>]

History(ids) == [type |-> "history", id |-> 0, ids |-> ids]

\* A payload written to connection x reaches the client while its end is open.
Deliver(box, x, ev) == [box EXCEPT ![x] = Append(@, ev)]

NoBroadcast == [id |-> 0, todo |-> {}, idx |-> 0]
NoCache == [loaded |-> FALSE, role |-> NoVal,
            row |-> [admin_id |-> NoVal, teacher_ids |-> <<>>, student_ids |-> <<>>]]

\* `x in ids`, ids a JSON list column.
InList(x, ids) == \E i \in DOMAIN ids : ids[i] = x

\* ids.remove(x), x in ids: the list without its first x.
ListRemove(ids, x) ==
    LET i == CHOOSE k \in DOMAIN ids : ids[k] = x /\ \A j \in 1..(k - 1) : ids[j] # x
    IN  SubSeq(ids, 1, i - 1) \o SubSeq(ids, i + 1, Len(ids))

\* ------------------------------------------------- membership (spec 4.1)
\* ws_routes: the class_members row of (class_id, user_id), or NoVal.
ClassMemberRole(r, u) == classMember[r][u]

\* chatroom_routes.is_admin
is_admin(r, u) == memberRow[r].row /\ u \in memberRow[r].admins

\* chatroom_routes.is_member_or_admin
is_member_or_admin(r, u) ==
    memberRow[r].row /\ (u \in memberRow[r].admins \/ u \in memberRow[r].members)

\* class_chat_routes.is_admin_or_teacher_for_class, on a Classroom row (or no row).
RowIsAdminOrTeacher(present, row, u) ==
    /\ present
    /\ (row.admin_id = u \/ InList(u, row.teacher_ids))

is_admin_or_teacher_for_class(r, u) ==
    RowIsAdminOrTeacher(r \in rooms, classroom[r], u)

\* get_role(room, user) of the spec, read from the tables of the route module.
GetRole(r, u) ==
    CASE route = "ws" ->
            IF u \notin Users \/ ClassMemberRole(r, u) = NoVal THEN "Absent"
            ELSE IF ClassMemberRole(r, u) \in {"teacher", "admin"} THEN "Privileged"
            ELSE "Plain"
      [] route = "chatroom" ->
            IF is_admin(r, u) THEN "Privileged"
            ELSE IF is_member_or_admin(r, u) THEN "Plain"
            ELSE "Absent"
      [] OTHER ->
            IF is_admin_or_teacher_for_class(r, u) THEN "Privileged"
            ELSE IF r \in rooms /\ InList(u, classroom[r].student_ids) THEN "Plain"
            ELSE "Absent"

\* The parameters a session connects with; `auth` records get_role of the
\* user at that moment.
Login(r, u, role) == [room |-> r, user |-> u, role |-> role, auth |-> GetRole(r, u)]

\* ------------------------------------------------------------- Init
\* The server after start-up, its tables holding two classrooms.
Start ==
    /\ rooms = Classes
    /\ classMember = [r \in Classes |->
           [u \in Users |-> IF u = "t1" THEN "teacher"
                            ELSE IF u = "s1" /\ r = "c1" THEN "student"
                            ELSE NoVal]]
    /\ memberRow = [r \in Classes |->
           IF r = "c1" THEN [row |-> TRUE, members |-> {"s1"}, admins |-> {"t1"}]
           ELSE [row |-> TRUE, members |-> {}, admins |-> {"t1"}]]
    /\ classroom = [r \in Classes |->
           [admin_id |-> "a1", teacher_ids |-> <<"t1">>,
            student_ids |-> IF r = "c1" THEN <<"s1">> ELSE <<>>]]
    /\ active = [r \in {} |-> <<>>]
    /\ pc = [s \in Sessions |-> "new"]
    /\ sess = [s \in Sessions |-> [room |-> "c1", user |-> NoVal, role |-> NoVal,
                                    auth |-> NoVal]]
    /\ cache = [s \in Sessions |-> NoCache]
    /\ bq = [s \in Sessions |-> NoBroadcast]
    /\ alive = [s \in Sessions |-> FALSE]
    /\ inbox = [s \in Sessions |-> <<>>]
    /\ messages = <<>>
    /\ nextId = 1
    /\ threads = {}
    /\ nReq = 0
    /\ lastReq = [by |-> 0, kind |-> NoVal, arg |-> 0, auth |-> NoVal, status |-> NoVal,
                  result |-> <<>>]
    /\ stalled = {}
    /\ enquiries = [e \in {} |-> NoVal]
    /\ commissions = <<>>
    /\ receipts = <<>>
    /\ month = 1
    /\ perCoursesCommission = [k \in Counsellors |-> [c \in Courses |-> 10]]

Init == Start /\ route \in Routes /\ budget = MaxRequests

\* ------------------------------------------------------ time and history
\* Time advances with every connect and every request served.
Clock == nReq + Cardinality({s \in Sessions : pc[s] # "new"})

\* A reading of the wall clock (datetime.utcnow(), now()): readings never
\* decrease, and two readings taken one after the other may be equal.
Stamps == {IF Clock = 0 THEN 0 ELSE Clock - 1, Clock}

\* query.order_by(created_at.desc()).limit(n).all(), then reversed(): the
\* ids of the rows of room r, by non-increasing timestamp, cut to n and
\* reversed.  The store returns rows of equal timestamp in an order of its
\* choice, so the query has one result for each such order.
recent(msgs, r, n) ==
    LET idx == {i \in DOMAIN msgs : msgs[i].room = r}
        k == Cardinality(idx)
        m == IF n < k THEN n ELSE k
        sorted == {q \in [1..k -> idx] :
                      /\ \A a, b \in 1..k : a # b => q[a] # q[b]
                      /\ \A a, b \in 1..k : a < b => msgs[q[a]].ts >= msgs[q[b]].ts}
    IN  {[j \in 1..m |-> msgs[q[m + 1 - j]].id] : q \in sorted}

\* ------------------------------------------------ message persistence
\* A Message row.  room, sender and role are the stored columns; `by` (the
\* user id the sending session connected with, NoVal over HTTP), `auth`
\* (get_role of the stored sender when the row was written), `via` (the
\* sending session, 0 over HTTP) and `snap` (the connections registered in
\* the room when a session sent it) record the send for the properties.
\* `ts` is the created_at / timestamp column.
Row(id, r, sender, role, by, via, ts) ==
    [id |-> id, room |-> r, sender |-> sender, role |-> role, ts |-> ts,
     by |-> by, auth |-> GetRole(r, sender), via |-> via,
     snap |-> IF via # 0 /\ r \in DOMAIN active THEN Range(active[r]) ELSE {}]

\* A handler that carried on after a rejected write.
CommitSwallowed(ok) == FALSE

\* db.commit() raises when the store rejects the write; the handlers do not
\* catch it, so the code after it does not run.
CommitRaises(ok) == ~ok

\* The table after db.add(msg); db.commit().
Insert(ok, row) == IF ok THEN Append(messages, row) ELSE messages

\* The table after db.delete(msg); db.commit().
Delete(r, id) == SelectSeq(messages, LAMBDA m : ~(m.id = id /\ m.room = r))

\* A lookup by id alone.
StoredAnywhere(r, id) == \E i \in DOMAIN messages : messages[i].id = id

\* query.filter(id == message_id, classroom_id == classroom_id).first():
\* the row of room r with this id is stored.
Stored(r, id) == \E i \in DOMAIN messages : messages[i].id = id /\ messages[i].room = r

\* --------------------------------------------------- outbound writes
\* websocket.send_json / send_text to connection x: the payload is written
\* when the call is made; the call raises when x's end is closed.
SendTo(box, x, ev) == IF alive[x] THEN Deliver(box, x, ev) ELSE box

\* The session's handler ends: the server side of the connection is closed.
Closed(s) ==
    /\ pc' = [pc EXCEPT ![s] = "closed"]
    /\ alive' = [alive EXCEPT ![s] = FALSE]
    /\ bq' = [bq EXCEPT ![s] = NoBroadcast]

\* One more request is served.
Request ==
    /\ nReq < budget
    /\ nReq' = nReq + 1

\* The reply to a request: what the handler of session `by` did with a
\* frame ("error": a local error payload, "raised": an exception left the
\* handler, "rejected": db.commit() raised, "sent"), or the status of an
\* HTTP response (by = 0) and the rows it returns.  `arg` is the limit or
\* the message id of the request, `auth` get_role of the requester.
Asked(by, kind, arg, auth, status, result) ==
    lastReq' = [by |-> by, kind |-> kind, arg |-> arg, auth |-> auth, status |-> status,
                result |-> result]

Served(by, kind, status, result) == Asked(by, kind, 0, NoVal, status, result)

\* What a frame is to the handlers: not JSON, JSON but no object, an object
\* without text content, or a well-formed send.
FrameKind(f) ==
    IF f.kind # "obj" THEN f.kind ELSE IF f.content = NoVal THEN "nocontent" ELSE "ok"

Reply(s, f, status) == Served(s, FrameKind(f), status, <<>>)

\* Sessions are interchangeable: they are opened in the order of their ids.
MayOpen(s) == pc[s] = "new" /\ \A t \in Sessions : t < s => pc[t] # "new"

\* ------------------------------------- services/ws_manager.py (route "ws")
\* A connect that returns before the connection is in the room's set.
ws_manager_connect_deferred(reg, r, s) == reg

\* ConnectionManager.connect: under the lock, add to the room's set.
ws_manager_connect(reg, r, s) ==
    IF r \in DOMAIN reg
    THEN [reg EXCEPT ![r] = IF s \in Range(@) THEN @ ELSE Append(@, s)]
    ELSE PutKey(reg, r, <<s>>)

\* ConnectionManager.disconnect: under the lock, discard; drop an empty room.
ws_manager_disconnect(reg, r, s) ==
    IF r \notin DOMAIN reg THEN reg
    ELSE LET rest == SelectSeq(reg[r], LAMBDA x : x # s)
         IN  IF rest = <<>> THEN DropKey(reg, r) ELSE [reg EXCEPT ![r] = rest]

\* conns = list(self.active_connections[class_id]) / list(self.active.get(..)):
\* a copy of the room's set, iterated in an order the set decides.
Snapshot(reg, r) == IF r \in DOMAIN reg THEN Range(reg[r]) ELSE {}

\* `await c.send(..)` to connection x does not return: the client's end is
\* open and it has stopped reading.  No send of the three managers has a
\* timeout, and a blocked send raises nothing for try/except to catch.
Blocks(x) == alive[x] /\ x \in stalled

\* The loop `for c in conns: try: await c.send(..) except: pass` from its
\* start to its first suspension: one write, then the rest is pending.  A
\* write that blocks leaves the handler in it ("stuck"), the connection
\* and those after it not written to.
StartSnapshotBroadcast(s, id, snap) ==
    IF snap = {}
    THEN /\ inbox' = inbox
         /\ bq' = [bq EXCEPT ![s] = NoBroadcast]
         /\ pc' = [pc EXCEPT ![s] = "open"]
    ELSE \E x \in snap :
         IF Blocks(x)
         THEN /\ inbox' = inbox
              /\ bq' = [bq EXCEPT ![s] = [id |-> id, todo |-> snap, idx |-> 0]]
              /\ pc' = [pc EXCEPT ![s] = "stuck"]
         ELSE /\ inbox' = SendTo(inbox, x, Event("message", id))
              /\ bq' = [bq EXCEPT ![s] = IF snap = {x} THEN NoBroadcast
                                         ELSE [id |-> id, todo |-> snap \ {x}, idx |-> 0]]
              /\ pc' = [pc EXCEPT ![s] = IF snap = {x} THEN "open" ELSE "bcast"]

\* The next write of a broadcast the handler is in.
SnapshotBroadcastStep(s) ==
    /\ pc[s] = "bcast"
    /\ \E x \in bq[s].todo :
         IF Blocks(x)
         THEN /\ pc' = [pc EXCEPT ![s] = "stuck"]
              /\ UNCHANGED <<inbox, bq>>
         ELSE /\ inbox' = SendTo(inbox, x, Event("message", bq[s].id))
              /\ bq' = [bq EXCEPT ![s] = IF @.todo = {x} THEN NoBroadcast
                                         ELSE [@ EXCEPT !.todo = @ \ {x}]]
              /\ pc' = [pc EXCEPT ![s] = IF bq[s].todo = {x} THEN "open" ELSE "bcast"]

\* ------------------------------------- routes/classroom/ws_routes.py
\* classroom_ws up to its receive loop: user_id check, accept, membership
\* query, manager.connect, history query and the history payload.
classroom_ws_connect(s, r, u) ==
    /\ route = "ws"
    /\ MayOpen(s)
    /\ sess' = [sess EXCEPT ![s] = Login(r, u, NoVal)]
    /\ IF u = NoVal
       THEN /\ Closed(s)
            /\ UNCHANGED <<active, cache, inbox>>
       ELSE IF ClassMemberRole(r, u) = NoVal
       THEN /\ Closed(s)
            /\ inbox' = Deliver(inbox, s, Event("error", 0))
            /\ UNCHANGED <<active, cache>>
       ELSE /\ active' = ws_manager_connect(active, r, s)
            /\ cache' = [cache EXCEPT ![s] =
                            [NoCache EXCEPT !.loaded = TRUE, !.role = ClassMemberRole(r, u)]]
            /\ \E h \in recent(messages, r, HistoryLimit) :
                   inbox' = Deliver(inbox, s, History(h))
            /\ alive' = [alive EXCEPT ![s] = TRUE]
            /\ pc' = [pc EXCEPT ![s] = "open"]
            /\ bq' = bq
    /\ UNCHANGED <<route, fixedVars, dbVars, messages, nextId, threads, budgetVars>>

\* An exception leaves the receive loop: finally: manager.disconnect, db.close.
classroom_ws_raise(s) ==
    /\ Closed(s)
    /\ active' = ws_manager_disconnect(active, sess[s].room, s)

\* member.role: the attribute of the ORM object loaded at connect; the
\* session's commit expires it, and the next read loads the row again.
member_role(s) ==
    IF cache[s].loaded THEN cache[s].role
    ELSE ClassMemberRole(sess[s].room, sess[s].user)

\* One inbound frame, from receive_text to the first write of the broadcast.
classroom_ws_receive(s, f, ok) ==
    /\ route = "ws"
    /\ pc[s] = "open" /\ alive[s] /\ s \notin stalled
    /\ Request
    /\ LET r == sess[s].room
           u == sess[s].user
           role == member_role(s)
           stay == /\ pc' = pc /\ alive' = alive /\ bq' = bq /\ active' = active
                   /\ messages' = messages /\ nextId' = nextId
       IN  CASE f.kind = "badjson" ->
                    /\ inbox' = Deliver(inbox, s, Event("error", 0))
                    /\ cache' = cache /\ stay /\ Reply(s, f, "error")
             [] f.kind = "nonobj" ->
                    \* payload.get on a list, string or number: AttributeError
                    /\ classroom_ws_raise(s) /\ Reply(s, f, "raised")
                    /\ UNCHANGED <<inbox, cache, messages, nextId>>
             [] f.kind = "obj" /\ f.action # "send" ->
                    /\ inbox' = Deliver(inbox, s, Event("error", 0))
                    /\ cache' = cache /\ stay /\ Reply(s, f, "error")
             [] f.kind = "obj" /\ f.action = "send" /\ role = NoVal ->
                    \* the expired row is gone: ObjectDeletedError
                    /\ classroom_ws_raise(s) /\ Reply(s, f, "raised")
                    /\ UNCHANGED <<inbox, cache, messages, nextId>>
             [] f.kind = "obj" /\ f.action = "send" /\ role # NoVal
                    /\ (role \notin {"teacher", "admin"} \/ f.content = NoVal) ->
                    /\ inbox' = Deliver(inbox, s, Event("error", 0))
                    /\ cache' = [cache EXCEPT ![s] =
                                    [@ EXCEPT !.loaded = TRUE, !.role = role]]
                    /\ stay /\ Reply(s, f, "error")
             [] OTHER ->
                    IF CommitRaises(ok)
                    THEN /\ classroom_ws_raise(s) /\ Reply(s, f, "rejected")
                         /\ UNCHANGED <<inbox, cache, messages, nextId>>
                    ELSE /\ \E ts \in Stamps :
                                messages' = Insert(ok, Row(nextId, r, u, role, u, s, ts))
                         /\ nextId' = IF ok THEN nextId + 1 ELSE nextId
                         /\ cache' = [cache EXCEPT ![s] = NoCache]
                         /\ StartSnapshotBroadcast(s, nextId, Snapshot(active, r))
                         /\ Reply(s, f, "sent")
                         /\ UNCHANGED <<active, alive>>
    /\ UNCHANGED <<route, fixedVars, dbVars, sess, threads>>

\* manager.broadcast after its first write (ws_manager.py).
ws_manager_broadcast(s) ==
    /\ route = "ws"
    /\ SnapshotBroadcastStep(s)
    /\ UNCHANGED <<route, fixedVars, dbVars, active, sess, cache, alive, messages, nextId,
                   threads, budgetVars>>

\* receive_text raises WebSocketDisconnect: except: pass, finally: disconnect.
classroom_ws_disconnect(s) ==
    /\ route = "ws"
    /\ pc[s] = "open" /\ ~alive[s]
    /\ classroom_ws_raise(s)
    /\ UNCHANGED <<route, fixedVars, dbVars, sess, cache, inbox, messages, nextId, threads,
                   budgetVars>>

\* The client closes its end of the connection.
client_close(s) ==
    /\ pc[s] \in {"open", "bcast", "stuck"} /\ alive[s]
    /\ alive' = [alive EXCEPT ![s] = FALSE]
    /\ UNCHANGED <<route, fixedVars, dbVars, active, pc, sess, cache, bq, inbox, messages,
                   nextId, threads, budgetVars>>

\* The client stops reading (and sending) with its end open: once its
\* buffers are full no send to it returns.
client_stall(s) ==
    /\ pc[s] \in {"open", "bcast", "stuck"} /\ alive[s] /\ s \notin stalled
    /\ stalled' = stalled \cup {s}
    /\ UNCHANGED <<route, budget, officeVars, dbVars, active, pc, sess, cache, bq, alive,
                   inbox, messages, nextId, threads, budgetVars>>

\* The connection a blocked send was writing to is closed by its client:
\* the send raises, and the loop of the broadcast goes on from that write.
broadcast_unblocks(s) ==
    /\ pc[s] = "stuck"
    /\ LET r == sess[s].room
           waits == IF route = "chatroom"
                    THEN IF r \in DOMAIN active /\ bq[s].idx < Len(active[r])
                         THEN {active[r][bq[s].idx + 1]} ELSE {}
                    ELSE bq[s].todo
       IN  \A x \in waits : ~Blocks(x)
    /\ pc' = [pc EXCEPT ![s] = "bcast"]
    /\ UNCHANGED <<route, fixedVars, dbVars, active, sess, cache, bq, alive, inbox,
                   messages, nextId, threads, budgetVars>>

\* The same for a broadcast running on a thread.
thread_broadcast_unblocks(t) ==
    /\ route = "class_chat"
    /\ t \in threads /\ t.stuck
    /\ \A x \in t.todo : ~Blocks(x)
    /\ threads' = (threads \ {t}) \cup {[t EXCEPT !.stuck = FALSE]}
    /\ UNCHANGED <<route, fixedVars, dbVars, active, pc, sess, cache, bq, alive, inbox,
                   messages, nextId, budgetVars>>

\* The class_members rows are written outside the chat routes (no route of
\* the repository writes them): one row is added, removed or given a role.
set_class_member(r, u, role) ==
    /\ route = "ws"
    /\ Request /\ Served(0, "admin", "200", <<>>)
    /\ classMember[r][u] # role
    /\ classMember' = [classMember EXCEPT ![r][u] = role]
    /\ UNCHANGED <<route, fixedVars, rooms, memberRow, classroom, active, pc, sess, cache, bq,
                   alive, inbox, messages, nextId, threads>>

\* ------------------------- routes/classroom/chatroom_routes.py ("chatroom")
\* ConnectionManager.connect: accept, append to the room's list.
chatroom_manager_connect(reg, r, s) ==
    IF r \in DOMAIN reg THEN [reg EXCEPT ![r] = Append(@, s)]
    ELSE PutKey(reg, r, <<s>>)

\* ConnectionManager.disconnect: list.remove; delete the key of an empty list.
chatroom_manager_disconnect(reg, r, s) ==
    IF r \notin DOMAIN reg THEN reg
    ELSE LET rest == RemoveFirst(reg[r], s)
         IN  IF rest = <<>> THEN DropKey(reg, r) ELSE [reg EXCEPT ![r] = rest]

\* websocket_endpoint up to its receive loop.
websocket_endpoint_connect(s, r, u) ==
    /\ route = "chatroom"
    /\ MayOpen(s)
    /\ sess' = [sess EXCEPT ![s] = Login(r, u, NoVal)]
    /\ IF ~is_member_or_admin(r, u)
       THEN /\ Closed(s)
            /\ inbox' = Deliver(inbox, s, Event("error", 0))
            /\ active' = active
       ELSE /\ active' = chatroom_manager_connect(active, r, s)
            /\ alive' = [alive EXCEPT ![s] = TRUE]
            /\ pc' = [pc EXCEPT ![s] = "open"]
            /\ UNCHANGED <<inbox, bq>>
    /\ UNCHANGED <<route, fixedVars, dbVars, cache, messages, nextId, threads, budgetVars>>

\* An exception leaves the handler.  Only WebSocketDisconnect is caught, and
\* its handler unregisters the handler's own connection.
websocket_endpoint_raise(s, wsd) ==
    /\ Closed(s)
    /\ active' = IF wsd THEN chatroom_manager_disconnect(active, sess[s].room, s)
                 ELSE active

\* ConnectionManager.broadcast: `for connection in self.active_connections[id]:
\* await connection.send_json(message)`, one iteration over the live list,
\* which is read by index; a failed write raises out of the loop, and a
\* write that blocks leaves the handler in it.  `wsd`: the write raised
\* WebSocketDisconnect (or another exception).
chatroom_manager_broadcast_from(s, id, idx, wsd) ==
    LET r == sess[s].room IN
    IF r \notin DOMAIN active \/ idx >= Len(active[r])
    THEN /\ pc' = [pc EXCEPT ![s] = "open"]
         /\ bq' = [bq EXCEPT ![s] = NoBroadcast]
         /\ UNCHANGED <<inbox, alive, active>>
    ELSE LET x == active[r][idx + 1] IN
         IF Blocks(x)
         THEN /\ bq' = [bq EXCEPT ![s] = [id |-> id, todo |-> {}, idx |-> idx]]
              /\ pc' = [pc EXCEPT ![s] = "stuck"]
              /\ UNCHANGED <<inbox, alive, active>>
         ELSE IF alive[x]
         THEN /\ inbox' = Deliver(inbox, x, Event("message", id))
              /\ bq' = [bq EXCEPT ![s] = [id |-> id, todo |-> {}, idx |-> idx + 1]]
              /\ pc' = [pc EXCEPT ![s] = "bcast"]
              /\ UNCHANGED <<alive, active>>
         ELSE /\ websocket_endpoint_raise(s, wsd)
              /\ inbox' = inbox

\* One inbound frame, from receive_json to the first write of the broadcast.
websocket_endpoint_receive(s, f, ok, wsd) ==
    /\ route = "chatroom"
    /\ pc[s] = "open" /\ alive[s] /\ s \notin stalled
    /\ Request
    /\ LET r == sess[s].room
           u == sess[s].user
       IN  CASE f.kind # "obj" ->
                    \* JSONDecodeError in receive_json, AttributeError in data.get
                    /\ websocket_endpoint_raise(s, FALSE) /\ Reply(s, f, "raised")
                    /\ UNCHANGED <<inbox, messages, nextId>>
             [] f.kind = "obj" /\ (f.content = NoVal \/ f.sender_role = NoVal
                                   \/ ~is_admin(r, u)) ->
                    /\ inbox' = Deliver(inbox, s, Event("error", 0))
                    /\ Reply(s, f, "error")
                    /\ UNCHANGED <<pc, alive, bq, active, messages, nextId>>
             [] OTHER ->
                    IF CommitRaises(ok)
                    THEN /\ websocket_endpoint_raise(s, FALSE) /\ Reply(s, f, "rejected")
                         /\ UNCHANGED <<inbox, messages, nextId>>
                    ELSE /\ \E ts \in Stamps :
                                messages' = Insert(ok, Row(nextId, r, u, f.sender_role, u, s, ts))
                         /\ nextId' = IF ok THEN nextId + 1 ELSE nextId
                         /\ chatroom_manager_broadcast_from(s, nextId, 0, wsd)
                         /\ Reply(s, f, "sent")
    /\ UNCHANGED <<route, fixedVars, dbVars, sess, cache, threads>>

\* manager.broadcast resumes after a write.
chatroom_manager_broadcast(s, wsd) ==
    /\ route = "chatroom"
    /\ pc[s] = "bcast"
    /\ chatroom_manager_broadcast_from(s, bq[s].id, bq[s].idx, wsd)
    /\ UNCHANGED <<route, fixedVars, dbVars, sess, cache, messages, nextId, threads, budgetVars>>

\* receive_json raises WebSocketDisconnect: manager.disconnect.
websocket_endpoint_disconnect(s) ==
    /\ route = "chatroom"
    /\ pc[s] = "open" /\ ~alive[s]
    /\ websocket_endpoint_raise(s, TRUE)
    /\ UNCHANGED <<route, fixedVars, dbVars, sess, cache, inbox, messages, nextId, threads,
                   budgetVars>>

\* GET /history/{classroom_id}/{user_id}?limit= (offset 0): a read, which
\* changes nothing; its rows are the reply.
get_chat_history(r, u, limit) ==
    /\ route = "chatroom"
    /\ IF ~is_member_or_admin(r, u)
       THEN Asked(0, "history", limit, GetRole(r, u), "403", <<>>)
       ELSE \E h \in recent(messages, r, limit) :
                Asked(0, "history", limit, GetRole(r, u), "200", h)
    /\ UNCHANGED <<route, fixedVars, dbVars, active, pc, sess, cache, bq, alive, inbox, messages,
                   nextId, threads, nReq>>

\* DELETE /delete/{classroom_id}/{user_id}/{message_id}: the requester is
\* checked, then the row is looked up and deleted; nothing is broadcast.
delete_chat_message(r, u, message_id) ==
    /\ route = "chatroom"
    /\ Request
    /\ LET auth == GetRole(r, u) IN
       CASE ~is_admin(r, u) ->
                /\ Asked(0, "delete", message_id, auth, "403", <<>>)
                /\ messages' = messages
         [] is_admin(r, u) /\ ~Stored(r, message_id) ->
                /\ Asked(0, "delete", message_id, auth, "404", <<>>)
                /\ messages' = messages
         [] OTHER ->
                /\ Asked(0, "delete", message_id, auth, "204", <<>>)
                /\ messages' = Delete(r, message_id)
    /\ UNCHANGED <<route, fixedVars, dbVars, active, pc, sess, cache, bq, alive, inbox, nextId,
                   threads>>

\* ------------------------------------- routes/classroom/member_routes.py
\* get_or_create_member_row
get_or_create_member_row(r) == [memberRow[r] EXCEPT !.row = TRUE]

AdminReplies(kind, status) ==
    /\ Request /\ Served(0, kind, status, <<>>)
    /\ UNCHANGED <<route, fixedVars, active, pc, sess, cache, bq, alive, inbox, messages,
                   nextId, threads>>

AdminStep == AdminReplies("admin", "200")

add_member(r, u, user_type, role) ==
    /\ route = "chatroom"
    /\ AdminStep
    /\ LET row == get_or_create_member_row(r) IN
       memberRow' = [memberRow EXCEPT ![r] =
           IF user_type = "student" /\ role = "member"
           THEN [row EXCEPT !.members = @ \cup {u}]
           ELSE IF user_type = "teacher" /\ role = "admin"
           THEN [row EXCEPT !.admins = @ \cup {u}]
           ELSE row]
    /\ UNCHANGED <<rooms, classMember, classroom>>

remove_member(r, u, user_type) ==
    /\ route = "chatroom"
    /\ AdminStep
    /\ memberRow[r].row
    /\ memberRow' = [memberRow EXCEPT ![r] =
           IF user_type = "student" THEN [@ EXCEPT !.members = @ \ {u}]
           ELSE [@ EXCEPT !.admins = @ \ {u}]]
    /\ UNCHANGED <<rooms, classMember, classroom>>

add_admin(r, u) ==
    /\ route = "chatroom"
    /\ AdminStep
    /\ memberRow' = [memberRow EXCEPT ![r] =
           [get_or_create_member_row(r) EXCEPT !.admins = @ \cup {u}]]
    /\ UNCHANGED <<rooms, classMember, classroom>>

demote_admin(r, u) ==
    /\ route = "chatroom"
    /\ AdminStep
    /\ memberRow[r].row
    /\ memberRow' = [memberRow EXCEPT ![r] = [@ EXCEPT !.admins = @ \ {u}]]
    /\ UNCHANGED <<rooms, classMember, classroom>>

\* ---------------------- routes/classroom/class_chat_routes.py ("class_chat")
\* ConnectionManager.connect: accept, self.active.setdefault(id, set()).add(ws)
class_chat_manager_connect(reg, r, s) ==
    IF r \in DOMAIN reg
    THEN [reg EXCEPT ![r] = IF s \in Range(@) THEN @ ELSE Append(@, s)]
    ELSE PutKey(reg, r, <<s>>)

\* ConnectionManager.disconnect: remove from the room's set; the key stays.
class_chat_manager_disconnect(reg, r, s) ==
    IF r \in DOMAIN reg /\ s \in Range(reg[r])
    THEN [reg EXCEPT ![r] = SelectSeq(@, LAMBDA x : x # s)]
    ELSE reg

\* The event loop is inside manager.disconnect, between its membership
\* test and conns.remove: no coroutine runs until it is through, while the
\* worker threads and the broadcast threads run on.
LoopBusy == \E s \in Sessions : pc[s] = "unreg"

\* websocket_chat up to its receive loop: manager.connect, no membership query.
websocket_chat_connect(s, r, u, role) ==
    /\ route = "class_chat"
    /\ MayOpen(s) /\ ~LoopBusy
    /\ sess' = [sess EXCEPT ![s] = Login(r, u, role)]
    /\ active' = class_chat_manager_connect(active, r, s)
    /\ alive' = [alive EXCEPT ![s] = TRUE]
    /\ pc' = [pc EXCEPT ![s] = "open"]
    /\ UNCHANGED <<route, fixedVars, dbVars, cache, bq, inbox, messages, nextId, threads,
                   budgetVars>>

\* An exception other than a receive error leaves the handler: the outer
\* `except WebSocketDisconnect` does not catch it, finally closes the db.
websocket_chat_raise(s) ==
    /\ Closed(s)
    /\ active' = active

\* One inbound frame, from receive_text to the first write of the broadcast.
\* `cls` is the Classroom object of the handler's db session: while the
\* handler holds it and no commit has expired it, the query returns it as
\* loaded.
websocket_chat_receive(s, f, ok) ==
    /\ route = "class_chat"
    /\ pc[s] = "open" /\ alive[s] /\ s \notin stalled /\ ~LoopBusy
    /\ Request
    /\ LET r == sess[s].room
           sender_id == IF f.sender_id # NoVal THEN f.sender_id ELSE sess[s].user
           sender_role == IF f.sender_role # NoVal THEN f.sender_role ELSE sess[s].role
           cls == IF cache[s].loaded THEN cache[s].row ELSE classroom[r]
           stay == UNCHANGED <<pc, alive, bq, active, messages, nextId>>
           error == inbox' = Deliver(inbox, s, Event("error", 0)) /\ Reply(s, f, "error")
       IN  CASE f.kind = "badjson" ->
                    error /\ stay /\ cache' = cache
             [] f.kind = "nonobj" ->
                    \* payload.get on a list, string or number: AttributeError
                    /\ websocket_chat_raise(s) /\ Reply(s, f, "raised")
                    /\ UNCHANGED <<inbox, cache, messages, nextId>>
             [] f.kind = "obj" /\ (f.content = NoVal \/ sender_id = NoVal
                                   \/ sender_role = NoVal) ->
                    error /\ stay /\ cache' = cache
             [] f.kind = "obj" /\ f.content # NoVal /\ sender_id # NoVal
                    /\ sender_role # NoVal /\ r \notin rooms ->
                    error /\ stay /\ cache' = [cache EXCEPT ![s] = NoCache]
             [] f.kind = "obj" /\ f.content # NoVal /\ sender_id # NoVal
                    /\ sender_role # NoVal /\ r \in rooms
                    /\ sender_role # "student"
                    /\ ~RowIsAdminOrTeacher(TRUE, cls, sender_id) ->
                    /\ error /\ stay
                    /\ cache' = [cache EXCEPT ![s] =
                                    [NoCache EXCEPT !.loaded = TRUE, !.row = cls]]
             [] OTHER ->
                    IF CommitRaises(ok)
                    THEN /\ websocket_chat_raise(s) /\ Reply(s, f, "rejected")
                         /\ UNCHANGED <<inbox, cache, messages, nextId>>
                    ELSE /\ messages' = Insert(ok, Row(nextId, r, sender_id, sender_role,
                                                       sess[s].user, s, Clock))
                         /\ nextId' = IF ok THEN nextId + 1 ELSE nextId
                         /\ cache' = [cache EXCEPT ![s] = NoCache]
                         /\ StartSnapshotBroadcast(s, nextId, Snapshot(active, r))
                         /\ Reply(s, f, "sent")
                         /\ UNCHANGED <<active, alive>>
    /\ UNCHANGED <<route, fixedVars, dbVars, sess, threads>>

\* manager.broadcast after its first write.
class_chat_manager_broadcast(s) ==
    /\ route = "class_chat"
    /\ ~LoopBusy
    /\ SnapshotBroadcastStep(s)
    /\ UNCHANGED <<route, fixedVars, dbVars, active, sess, cache, alive, messages, nextId,
                   threads, budgetVars>>

\* receive_text raises: manager.disconnect up to `if conns and websocket in
\* conns:`, which no lock covers.
websocket_chat_disconnect(s) ==
    /\ route = "class_chat"
    /\ pc[s] = "open" /\ ~alive[s] /\ ~LoopBusy
    /\ IF s \in Snapshot(active, sess[s].room)
       THEN /\ pc' = [pc EXCEPT ![s] = "unreg"]
            /\ UNCHANGED <<alive, bq>>
       ELSE Closed(s)
    /\ UNCHANGED <<route, fixedVars, dbVars, active, sess, cache, inbox, messages, nextId, threads,
                   budgetVars>>

\* conns.remove(websocket), break, finally: db.close().
websocket_chat_unregister(s) ==
    /\ route = "class_chat"
    /\ pc[s] = "unreg"
    /\ Closed(s)
    /\ active' = class_chat_manager_disconnect(active, sess[s].room, s)
    /\ UNCHANGED <<route, fixedVars, dbVars, sess, cache, inbox, messages, nextId, threads,
                   budgetVars>>

\* threading.Thread(target=_broadcast).start(): the thread has not run yet.
SpawnBroadcast(type, id, r) ==
    threads \cup {[type |-> type, id |-> id, room |-> r, started |-> FALSE, todo |-> {},
                   stuck |-> FALSE]}

HttpStep ==
    /\ route = "class_chat"
    /\ Request
    /\ UNCHANGED <<route, fixedVars, dbVars, active, pc, sess, cache, bq, alive, inbox>>

\* POST /post-to/{class_id}/messages; a rejected request (400, 403) or a
\* failed commit changes nothing.
post_message(r, sender_id, sender_role, content, ok) ==
    /\ HttpStep
    /\ CASE sender_id = NoVal \/ sender_role = NoVal \/ content = NoVal ->
                /\ Served(0, "post", "400", <<>>)
                /\ UNCHANGED <<messages, nextId, threads>>
         [] sender_id # NoVal /\ sender_role # NoVal /\ content # NoVal
                /\ ~is_admin_or_teacher_for_class(r, sender_id) ->
                /\ Served(0, "post", "403", <<>>)
                /\ UNCHANGED <<messages, nextId, threads>>
         [] OTHER ->
                IF CommitRaises(ok)
                THEN /\ Served(0, "post", "500", <<>>)
                     /\ UNCHANGED <<messages, nextId, threads>>
                ELSE /\ Served(0, "post", "200", <<>>)
                     /\ messages' = Insert(ok, Row(nextId, r, sender_id, sender_role, NoVal, 0, Clock))
                     /\ nextId' = IF ok THEN nextId + 1 ELSE nextId
                     /\ threads' = SpawnBroadcast("message", nextId, r)

\* POST /student/{class_id}/messages
student_post_message(r, student_id, content, ok) ==
    /\ HttpStep
    /\ CASE r \notin rooms ->
                /\ Served(0, "post", "404", <<>>)
                /\ UNCHANGED <<messages, nextId, threads>>
         [] r \in rooms /\ content = NoVal ->
                /\ Served(0, "post", "400", <<>>)
                /\ UNCHANGED <<messages, nextId, threads>>
         [] OTHER ->
                IF CommitRaises(ok)
                THEN /\ Served(0, "post", "500", <<>>)
                     /\ UNCHANGED <<messages, nextId, threads>>
                ELSE /\ Served(0, "post", "200", <<>>)
                     /\ messages' = Insert(ok, Row(nextId, r, student_id, "student", NoVal, 0, Clock))
                     /\ nextId' = IF ok THEN nextId + 1 ELSE nextId
                     /\ threads' = SpawnBroadcast("message", nextId, r)

\* DELETE /delete/{class_id}/messages/{message_id}: the row is looked up
\* before the requester is checked; the deleted event is broadcast by a
\* thread of its own.
delete_message(r, message_id, requester_id) ==
    /\ HttpStep
    /\ nextId' = nextId
    /\ LET auth == GetRole(r, requester_id) IN
       CASE ~Stored(r, message_id) ->
                /\ Asked(0, "delete", message_id, auth, "404", <<>>)
                /\ UNCHANGED <<messages, threads>>
         [] Stored(r, message_id) /\ ~is_admin_or_teacher_for_class(r, requester_id) ->
                /\ Asked(0, "delete", message_id, auth, "403", <<>>)
                /\ UNCHANGED <<messages, threads>>
         [] OTHER ->
                /\ Asked(0, "delete", message_id, auth, "200", <<>>)
                /\ messages' = Delete(r, message_id)
                /\ threads' = SpawnBroadcast("deleted", message_id, r)

\* The thread runs asyncio.run(manager.broadcast(..)): it copies the set.
thread_broadcast_start(t) ==
    /\ route = "class_chat"
    /\ t \in threads /\ ~t.started
    /\ threads' = (threads \ {t}) \cup
           (IF Snapshot(active, t.room) = {} THEN {}
            ELSE {[t EXCEPT !.started = TRUE, !.todo = Snapshot(active, t.room)]})
    /\ UNCHANGED <<route, fixedVars, dbVars, active, pc, sess, cache, bq, alive, inbox,
                   messages, nextId, budgetVars>>

\* One write of the thread's loop.  The connection belongs to the server's
\* event loop, not to the thread's: the write may raise (sent = FALSE) and
\* the loop ignores it; a write that blocks leaves the thread in it.
thread_broadcast_send(t, x, sent) ==
    /\ route = "class_chat"
    /\ t \in threads /\ t.started /\ ~t.stuck /\ x \in t.todo
    /\ IF sent /\ Blocks(x)
       THEN /\ inbox' = inbox
            /\ threads' = (threads \ {t}) \cup {[t EXCEPT !.stuck = TRUE]}
       ELSE /\ inbox' = IF sent THEN SendTo(inbox, x, Event(t.type, t.id)) ELSE inbox
            /\ threads' = (threads \ {t}) \cup
                   (IF t.todo = {x} THEN {} ELSE {[t EXCEPT !.todo = @ \ {x}]})
    /\ UNCHANGED <<route, fixedVars, dbVars, active, pc, sess, cache, bq, alive,
                   messages, nextId, budgetVars>>

\* ------------------------------------- routes/classroom/classroom_routes.py
\* The classrooms table is the membership table of route "class_chat".
delete_classroom_by_admin(admin_id, r) ==
    /\ route = "class_chat"
    /\ AdminStep
    /\ r \in rooms /\ classroom[r].admin_id = admin_id
    /\ rooms' = rooms \ {r}
    /\ UNCHANGED <<classMember, memberRow, classroom>>

\* teacher_ids, student_ids: the parsed JSON list, NoList when the form has
\* no such field.
NoList == <<NoVal>>

update_classroom_by_admin(admin_id, r, teacher_ids, student_ids) ==
    /\ route = "class_chat"
    /\ AdminStep
    /\ r \in rooms /\ classroom[r].admin_id = admin_id
    /\ classroom' = [classroom EXCEPT ![r] =
           [@ EXCEPT !.teacher_ids = IF teacher_ids = NoList THEN @ ELSE teacher_ids,
                     !.student_ids = IF student_ids = NoList THEN @ ELSE student_ids]]
    /\ UNCHANGED <<rooms, classMember, memberRow>>

\* `for sid in body.student_ids: if sid in existing: existing.remove(sid)`,
\* from the i-th requested id on.
RECURSIVE RemoveEach(_, _, _)
RemoveEach(existing, student_ids, i) ==
    IF i > Len(student_ids) THEN existing
    ELSE RemoveEach(IF InList(student_ids[i], existing)
                    THEN ListRemove(existing, student_ids[i]) ELSE existing,
                    student_ids, i + 1)

remove_students_from_class(r, student_ids, requester_id) ==
    /\ route = "class_chat"
    /\ IF r \notin rooms
       THEN AdminReplies("remove_students", "404") /\ classroom' = classroom
       ELSE IF ~(\/ classroom[r].admin_id = requester_id
                 \/ InList(requester_id, classroom[r].teacher_ids))
       THEN AdminReplies("remove_students", "403") /\ classroom' = classroom
       ELSE /\ AdminReplies("remove_students", "200")
            /\ classroom' = [classroom EXCEPT ![r].student_ids =
                                 RemoveEach(@, student_ids, 1)]
    /\ UNCHANGED <<rooms, classMember, memberRow>>

\* --------------------------- routes/admission/admission_enquiry_routes.py
\* What no office route changes.
chatVars == <<route, rooms, classMember, memberRow, classroom, active, pc, sess, cache,
              bq, alive, inbox, messages, nextId, threads, nReq, budget, stalled>>

\* The response of an office route: its status (500: an exception other
\* than HTTPException left the handler).
Responds(kind, status) == Served(0, kind, status, <<>>)

\* An ownership test that passes every code.
OwnsAny(code, counsellor_id) == TRUE

\* ac.counsellor_id == counsellor_id, of an admission_codes row that exists.
Owns(code, counsellor_id) == AdmissionCodes[code] = counsellor_id

\* The foreign keys of an admission_enquiries row, which the store checks
\* when the row is written: counsellors, admission_codes, courses (nullable).
EnquiryKeysHold(row) ==
    /\ row.counsellor_id \in Counsellors
    /\ row.admission_code \in DOMAIN AdmissionCodes
    /\ row.course_id \in Courses \cup {NoVal}

\* generate_admission_enquiry_id, repeated until the id is unused.
NewEnquiryId == CHOOSE e \in 1..(MaxEnquiries + 1) : e \notin DOMAIN enquiries

\* POST /api/admission-enquiries/create
create_admission_enquiry(counsellor_id, admission_code, course_id) ==
    /\ Cardinality(DOMAIN enquiries) < MaxEnquiries
    /\ LET row == [counsellor_id |-> counsellor_id, admission_code |-> admission_code,
                   course_id |-> course_id]
           reject(status) == Responds("create_enquiry", status) /\ enquiries' = enquiries
       IN  CASE counsellor_id \notin Counsellors -> reject("404")
             [] counsellor_id \in Counsellors /\ admission_code \notin DOMAIN AdmissionCodes ->
                    reject("404")
             [] counsellor_id \in Counsellors /\ admission_code \in DOMAIN AdmissionCodes
                    /\ ~Owns(admission_code, counsellor_id) -> reject("403")
             [] counsellor_id \in Counsellors /\ admission_code \in DOMAIN AdmissionCodes
                    /\ Owns(admission_code, counsellor_id) /\ course_id \notin Courses ->
                    reject("404")
             [] OTHER ->
                    /\ Responds("create_enquiry", "201")
                    /\ enquiries' = PutKey(enquiries, NewEnquiryId, row)
    /\ UNCHANGED <<chatVars, commissions, receipts, month, perCoursesCommission>>

\* PUT /api/admission-enquiries/put-by/{enquiry_id}.  A field of the payload
\* that is not given is NoVal; an admission code may be given empty ("").
\* The handler changes the loaded object as it goes and commits at its end:
\* a check that raises before that leaves the stored row as it was, and so
\* does a commit the store refuses.
update_enquiry(enquiry_id, counsellor_id, admission_code, course_id) ==
    LET reject(status) == Responds("update_enquiry", status) /\ enquiries' = enquiries IN
    /\ IF enquiry_id \notin DOMAIN enquiries
       THEN reject("404")
       ELSE LET item == enquiries[enquiry_id]
                new_counsellor_id == IF counsellor_id # NoVal THEN counsellor_id
                                     ELSE item.counsellor_id
                \* line 197-204
                codeFails ==
                    IF admission_code = NoVal \/ admission_code = "" THEN NoVal
                    ELSE IF admission_code \notin DOMAIN AdmissionCodes THEN "404"
                    ELSE IF ~Owns(admission_code, new_counsellor_id) THEN "403"
                    ELSE NoVal
                item1 == IF admission_code # NoVal
                         THEN [item EXCEPT !.admission_code = admission_code] ELSE item
                \* line 206-211
                courseFails ==
                    IF course_id \notin {NoVal, Null, ""} /\ course_id \notin Courses
                    THEN "404" ELSE NoVal
                \* line 229-231: a field set to null is stored as null
                item2 == IF course_id = Null THEN [item1 EXCEPT !.course_id = NoVal]
                         ELSE IF course_id # NoVal THEN [item1 EXCEPT !.course_id = course_id]
                         ELSE item1
                \* line 217-225
                counsellorFails ==
                    IF counsellor_id = NoVal THEN NoVal
                    ELSE IF counsellor_id \notin Counsellors THEN "404"
                    ELSE IF item2.admission_code \in DOMAIN AdmissionCodes
                            /\ ~Owns(item2.admission_code, counsellor_id) THEN "403"
                    ELSE NoVal
                item3 == IF counsellor_id # NoVal
                         THEN [item2 EXCEPT !.counsellor_id = counsellor_id] ELSE item2
            IN  IF codeFails # NoVal THEN reject(codeFails)
                ELSE IF courseFails # NoVal THEN reject(courseFails)
                ELSE IF counsellorFails # NoVal THEN reject(counsellorFails)
                ELSE IF ~EnquiryKeysHold(item3) THEN reject("500")
                ELSE /\ Responds("update_enquiry", "200")
                     /\ enquiries' = [enquiries EXCEPT ![enquiry_id] = item3]
    /\ UNCHANGED <<chatVars, commissions, receipts, month, perCoursesCommission>>

\* DELETE /api/admission-enquiries/delete-by/{enquiry_id}: commissions.enquiry_id
\* is a foreign key to the row.
delete_enquiry(enquiry_id) ==
    /\ CASE enquiry_id \notin DOMAIN enquiries ->
                Responds("delete_enquiry", "404") /\ enquiries' = enquiries
         [] enquiry_id \in DOMAIN enquiries
                /\ (\E i \in DOMAIN commissions : commissions[i].enquiry_id = enquiry_id) ->
                Responds("delete_enquiry", "500") /\ enquiries' = enquiries
         [] OTHER ->
                Responds("delete_enquiry", "200") /\ enquiries' = DropKey(enquiries, enquiry_id)
    /\ UNCHANGED <<chatVars, commissions, receipts, month, perCoursesCommission>>

\* ------------------------------- routes/commission/commission_routes.py
\* A lookup that finds no row.
NoCommissionOf(enquiry_id) == 0

\* db.query(Commission).filter_by(enquiry_id=...).first(): the place of the
\* enquiry's row in the table, 0 when it has none.
CommissionOf(enquiry_id) ==
    IF \E i \in DOMAIN commissions : commissions[i].enquiry_id = enquiry_id
    THEN CHOOSE i \in DOMAIN commissions :
             /\ commissions[i].enquiry_id = enquiry_id
             /\ \A j \in 1..(i - 1) : commissions[j].enquiry_id # enquiry_id
    ELSE 0

\* generate_monthly_commission_pdf: the file is named after the counsellor
\* and the month, in a directory named after them.
MonthlyPdfPath(counsellor_id, month_year) == <<"commission_monthly", counsellor_id, month_year>>

\* `for cobj in all_comms: cobj.pdf_path = rel`, all_comms the rows of the
\* counsellor and month.
WithMonthlyPdf(table, counsellor_id, month_year) ==
    [i \in DOMAIN table |->
        IF table[i].counsellor_id = counsellor_id /\ table[i].month_year = month_year
        THEN [table[i] EXCEPT !.pdf_path = MonthlyPdfPath(counsellor_id, month_year)]
        ELSE table[i]]

\* create_commission_for_enquiry(enquiry, db), called with a stored enquiry.
\* commissions.course_id is not nullable: the commit of a row without a
\* course raises and writes nothing.
create_commission_for_enquiry(enquiry_id) ==
    /\ enquiry_id \in DOMAIN enquiries
    /\ LET enquiry == enquiries[enquiry_id]
           at == CommissionOf(enquiry_id)
       IN  IF enquiry.course_id = NoVal
           THEN /\ commissions' = commissions
                /\ Responds("create_commission", "raises")
           ELSE IF at # 0
           THEN LET existing == commissions[at]
                    updated == [commissions EXCEPT ![at].course_id = enquiry.course_id]
                IN  /\ commissions' = WithMonthlyPdf(updated, existing.counsellor_id,
                                                     existing.month_year)
                    /\ Responds("create_commission", "existing")
           ELSE LET course_fees == IF enquiry.course_id \in Courses
                                   THEN CourseFees[enquiry.course_id] ELSE 0
                    commission_pct == IF enquiry.course_id \in Courses
                                      THEN perCoursesCommission[enquiry.counsellor_id]
                                                               [enquiry.course_id]
                                      ELSE 0
                    comm == [commission_id |-> Len(commissions) + 1,
                             counsellor_id |-> enquiry.counsellor_id,
                             enquiry_id |-> enquiry_id,
                             course_id |-> enquiry.course_id,
                             commission_percentage |-> commission_pct,
                             course_fees |-> course_fees,
                             commission_amount |-> (course_fees * commission_pct) \div 100,
                             payment_status |-> "pending",
                             month_year |-> month,
                             pdf_path |-> NoVal]
                IN  /\ Len(commissions) < MaxCommissions
                    /\ commissions' = WithMonthlyPdf(Append(commissions, comm),
                                                     comm.counsellor_id, comm.month_year)
                    /\ Responds("create_commission", "created")
    /\ UNCHANGED <<chatVars, enquiries, receipts, month, perCoursesCommission>>

\* PUT /api/counsellors/put-by/{counsellor_id} with per_courses_commission
update_counsellor(counsellor_id, course_id, percentage) ==
    /\ perCoursesCommission[counsellor_id][course_id] # percentage
    /\ perCoursesCommission' = [perCoursesCommission EXCEPT
                                   ![counsellor_id][course_id] = percentage]
    /\ Responds("update_counsellor", "200")
    /\ UNCHANGED <<chatVars, enquiries, commissions, receipts, month>>

\* The wall clock enters the next month.
month_passes ==
    /\ month < MaxMonths
    /\ month' = month + 1
    /\ UNCHANGED <<chatVars, lastReq, enquiries, commissions, receipts, perCoursesCommission>>

\* ------------------------------------------- routes/fee/fees_routes.py
\* receipts[id] is the fees_receipts row with that id, NoReceipt once the id
\* was handed out and its row deleted or never committed.
NoReceipt == [student_id |-> NoVal, total_course_fees |-> 0, amount_paid |-> 0,
              amount_due |-> 0]

\* FeesCreate payloads: a student, known or not, and the two amounts.
FeesCreate == [student_id : Students \cup {"st9"}, total_course_fees : {1000},
               amount_paid : {0, 400}]

\* fees_in_list: List[FeesCreate]
FeesLists == UNION {[1..n -> FeesCreate] : n \in 0..MaxBatch}

\* The rows `for fees_in in fees_in_list` adds to the session.
NewReceipts(fees_in_list) ==
    [i \in DOMAIN fees_in_list |->
        [student_id |-> fees_in_list[i].student_id,
         total_course_fees |-> fees_in_list[i].total_course_fees,
         amount_paid |-> fees_in_list[i].amount_paid,
         amount_due |-> fees_in_list[i].total_course_fees - fees_in_list[i].amount_paid]]

\* student_id ... unique=True: the first row of `added` the store refuses,
\* having a row of that student stored or inserted before it; 0 when none.
FirstRefused(table, added) ==
    LET taken(i) == \/ \E j \in DOMAIN table :
                          table[j] # NoReceipt /\ table[j].student_id = added[i].student_id
                    \/ \E j \in 1..(i - 1) : added[j].student_id = added[i].student_id
    IN  IF \E i \in DOMAIN added : taken(i)
        THEN CHOOSE i \in DOMAIN added : taken(i) /\ \A j \in 1..(i - 1) : ~taken(j)
        ELSE 0

\* POST /api/fees/create. The rows are inserted at db.commit(); an insert
\* the store refuses raises, the transaction is rolled back, and the ids the
\* inserts drew stay used.
create_fees_receipts(fees_in_list) ==
    /\ Len(receipts) + Len(fees_in_list) <= MaxReceipts
    /\ LET reject(status) == Responds("create_fees_receipts", status) /\ receipts' = receipts
           added == NewReceipts(fees_in_list)
           refused == FirstRefused(receipts, added)
       IN  IF fees_in_list = <<>> THEN reject("400")
           ELSE IF \E i \in DOMAIN fees_in_list :
                       fees_in_list[i].student_id # fees_in_list[1].student_id
                THEN reject("400")
           ELSE IF fees_in_list[1].student_id \notin Students THEN reject("404")
           ELSE IF refused # 0
                THEN /\ receipts' = receipts \o [i \in 1..refused |-> NoReceipt]
                     /\ Responds("create_fees_receipts", "500")
           ELSE /\ receipts' = receipts \o added
                /\ Responds("create_fees_receipts", "201")
    /\ UNCHANGED <<chatVars, enquiries, commissions, month, perCoursesCommission>>

\* PUT /api/fees/update-by/{fees_id} with amount_paid
update_fees_receipt(fees_id, amount_paid) ==
    /\ IF fees_id \in DOMAIN receipts /\ receipts[fees_id] # NoReceipt
       THEN /\ LET fees == receipts[fees_id] IN
                receipts' = [receipts EXCEPT ![fees_id] =
                   [fees EXCEPT !.amount_paid = amount_paid,
                                !.amount_due = fees.total_course_fees - amount_paid]]
            /\ Responds("update_fees_receipt", "200")
       ELSE /\ receipts' = receipts
            /\ Responds("update_fees_receipt", "404")
    /\ UNCHANGED <<chatVars, enquiries, commissions, month, perCoursesCommission>>

\* DELETE /api/fees/delete-by/{fees_id}
delete_fees_receipt(fees_id) ==
    /\ IF fees_id \in DOMAIN receipts /\ receipts[fees_id] # NoReceipt
       THEN /\ receipts' = [receipts EXCEPT ![fees_id] = NoReceipt]
            /\ Responds("delete_fees_receipt", "200")
       ELSE /\ receipts' = receipts
            /\ Responds("delete_fees_receipt", "404")
    /\ UNCHANGED <<chatVars, enquiries, commissions, month, perCoursesCommission>>

\* ------------------------------------------------------ specification
Next ==
    \/ \E s \in 1..NumOpened, r \in Rooms, u \in Users \cup {NoVal} :
           classroom_ws_connect(s, r, u)
    \/ \E s \in Sessions, f \in Frames, ok \in BOOLEAN : classroom_ws_receive(s, f, ok)
    \/ \E s \in Sessions : ws_manager_broadcast(s)
    \/ \E s \in Sessions : classroom_ws_disconnect(s)
    \/ \E r \in Rooms, u \in Staff, role \in {"teacher", "student", NoVal} :
           set_class_member(r, u, role)
    \/ \E s \in 1..NumOpened, r \in Rooms, u \in Users : websocket_endpoint_connect(s, r, u)
    \/ \E s \in Sessions, f \in Frames, ok \in BOOLEAN, wsd \in BOOLEAN :
           websocket_endpoint_receive(s, f, ok, wsd)
    \/ \E s \in Sessions, wsd \in BOOLEAN : chatroom_manager_broadcast(s, wsd)
    \/ \E s \in Sessions : websocket_endpoint_disconnect(s)
    \/ \E r \in Rooms, u \in {"t1", "x1"}, limit \in {1, HistoryLimit} :
           get_chat_history(r, u, limit)
    \/ \E r \in Rooms, u \in {"t1", "s1"}, id \in MessageIds : delete_chat_message(r, u, id)
    \/ \E r \in Rooms, u \in Staff, ut \in {"student", "teacher"}, role \in {"member", "admin"} :
           add_member(r, u, ut, role)
    \/ \E r \in Rooms, u \in Staff, ut \in {"student", "teacher"} : remove_member(r, u, ut)
    \/ \E r \in Rooms, u \in Staff : add_admin(r, u)
    \/ \E r \in Rooms, u \in Staff : demote_admin(r, u)
    \/ \E s \in 1..NumOpened, r \in Rooms, q \in Logins :
           websocket_chat_connect(s, r, q.user, q.role)
    \/ \E s \in Sessions, f \in Frames, ok \in BOOLEAN : websocket_chat_receive(s, f, ok)
    \/ \E s \in Sessions : class_chat_manager_broadcast(s)
    \/ \E s \in Sessions : websocket_chat_disconnect(s)
    \/ \E s \in Sessions : websocket_chat_unregister(s)
    \/ \E r \in Rooms, u \in {"t1", "s1", NoVal}, c \in {NoVal, "hi"}, ok \in BOOLEAN :
           post_message(r, u, "teacher", c, ok)
    \/ \E r \in Rooms, u \in {"s1", "x1"}, c \in {NoVal, "hi"}, ok \in BOOLEAN :
           student_post_message(r, u, c, ok)
    \/ \E r \in Rooms, id \in MessageIds, q \in {"t1", "s1"} : delete_message(r, id, q)
    \/ \E t \in threads : thread_broadcast_start(t)
    \/ \E t \in threads, x \in Sessions, sent \in BOOLEAN : thread_broadcast_send(t, x, sent)
    \/ \E r \in Rooms : delete_classroom_by_admin("a1", r)
    \/ \E r \in Rooms, ids \in {<<>>, <<"t1", "s1">>} :
           update_classroom_by_admin("a1", r, ids, NoList)
    \/ \E r \in Rooms, q \in {"t1", "s1"} : remove_students_from_class(r, <<"s1", "x1">>, q)
    \/ \E s \in Sessions : client_close(s)

Spec == Init /\ [][Next]_vars

\* ws_routes.py and ws_manager.py alone, with every session opened: a
\* client may connect while a broadcast to two others is under way.
InitWs == Init /\ route = "ws"

NextWs ==
    \/ \E s \in Sessions, r \in Rooms, u \in Users \cup {NoVal} :
           classroom_ws_connect(s, r, u)
    \/ \E s \in Sessions, f \in Frames, ok \in BOOLEAN : classroom_ws_receive(s, f, ok)
    \/ \E s \in Sessions : ws_manager_broadcast(s)
    \/ \E s \in Sessions : classroom_ws_disconnect(s)
    \/ \E r \in Rooms, u \in Staff, role \in {"teacher", "student", NoVal} :
           set_class_member(r, u, role)
    \/ \E s \in Sessions : client_close(s)

SpecWs == InitWs /\ [][NextWs]_vars

\* The three modules with clients that stop reading.  Sends are well
\* formed and commits succeed; the event loop runs every coroutine that can
\* run, and every thread is scheduled.
StallFrames == {f \in Frames : f.kind = "obj" /\ f.action = "send" /\ f.content = "hi"
                               /\ f.sender_id = "t1"}

NextStall ==
    \/ \E s \in 1..NumOpened, r \in Rooms : classroom_ws_connect(s, r, "t1")
    \/ \E s \in Sessions, f \in StallFrames : classroom_ws_receive(s, f, TRUE)
    \/ \E s \in Sessions : ws_manager_broadcast(s)
    \/ \E s \in 1..NumOpened, r \in Rooms : websocket_endpoint_connect(s, r, "t1")
    \/ \E s \in Sessions, f \in StallFrames : websocket_endpoint_receive(s, f, TRUE, FALSE)
    \/ \E s \in Sessions : chatroom_manager_broadcast(s, FALSE)
    \/ \E s \in 1..NumOpened, r \in Rooms : websocket_chat_connect(s, r, "t1", "teacher")
    \/ \E s \in Sessions, f \in StallFrames : websocket_chat_receive(s, f, TRUE)
    \/ \E s \in Sessions : class_chat_manager_broadcast(s)
    \/ \E r \in Rooms : post_message(r, "t1", "teacher", "hi", TRUE)
    \/ \E t \in threads : thread_broadcast_start(t)
    \/ \E t \in threads, x \in Sessions : thread_broadcast_send(t, x, TRUE)
    \/ \E t \in threads : thread_broadcast_unblocks(t)
    \/ \E s \in Sessions : broadcast_unblocks(s)
    \/ \E s \in Sessions : client_stall(s)
    \/ \E s \in Sessions : client_close(s)

Scheduling ==
    /\ \A s \in Sessions :
           /\ WF_vars(ws_manager_broadcast(s))
           /\ WF_vars(chatroom_manager_broadcast(s, FALSE))
           /\ WF_vars(class_chat_manager_broadcast(s))
           /\ WF_vars(broadcast_unblocks(s))
    /\ WF_vars(\E t \in threads : thread_broadcast_start(t))
    /\ WF_vars(\E t \in threads, x \in Sessions : thread_broadcast_send(t, x, TRUE))
    /\ WF_vars(\E t \in threads : thread_broadcast_unblocks(t))

SpecStall == Init /\ [][NextStall]_vars /\ Scheduling

\* The two modules with a delete route, over both classrooms: teacher t1,
\* Privileged in both, sends or posts to either and deletes from either.
InitDelete == Start /\ route \in {"chatroom", "class_chat"} /\ budget = MaxDeletes

NextDelete ==
    \/ \E r \in Classes : websocket_endpoint_connect(1, r, "t1")
    \/ \E f \in StallFrames : websocket_endpoint_receive(1, f, TRUE, FALSE)
    \/ chatroom_manager_broadcast(1, FALSE)
    \/ \E r \in Classes, id \in MessageIds : delete_chat_message(r, "t1", id)
    \/ \E r \in Classes : websocket_chat_connect(1, r, "t1", "teacher")
    \/ \E r \in Classes : post_message(r, "t1", "teacher", "hi", TRUE)
    \/ \E r \in Classes, id \in MessageIds : delete_message(r, id, "t1")
    \/ \E t \in threads : thread_broadcast_start(t)
    \/ \E t \in threads, x \in Sessions : thread_broadcast_send(t, x, TRUE)

SpecDelete == InitDelete /\ [][NextDelete]_vars

\* The admission enquiry routes.  A request names a counsellor that exists
\* or not ("k9"), a code of one of them, no code ("ZZ") or, in an update,
\* the empty code or none (NoVal), and a course that exists or not ("crs9").
NextEnquiry ==
    \/ \E k \in Counsellors \cup {"k9"}, code \in DOMAIN AdmissionCodes \cup {"ZZ"},
          c \in Courses \cup {"crs9"} : create_admission_enquiry(k, code, c)
    \/ \E e \in 1..MaxEnquiries, k \in Counsellors \cup {"k9", NoVal},
          code \in DOMAIN AdmissionCodes \cup {"ZZ", "", NoVal}, c \in {NoVal, "crs9"} :
           update_enquiry(e, k, code, c)
    \/ \E e \in 1..MaxEnquiries : delete_enquiry(e)

SpecEnquiry == Init /\ [][NextEnquiry]_vars

\* The commission routes, with the enquiries they are computed from: an
\* enquiry is created for a counsellor with a code of theirs, may pass to
\* the other counsellor and lose or regain its course, and
\* create_commission_for_enquiry is called for it any number of times while
\* percentages change and months pass.
NextCommission ==
    \/ \E code \in {"A1", "B1"}, c \in Courses :
           create_admission_enquiry(AdmissionCodes[code], code, c)
    \/ \E e \in 1..MaxEnquiries, code \in {"A1", "B1"},
          c \in Courses \cup {NoVal, Null} : update_enquiry(e, AdmissionCodes[code], code, c)
    \/ \E e \in 1..MaxEnquiries : create_commission_for_enquiry(e)
    \/ \E k \in Counsellors, c \in Courses, pct \in Percentages : update_counsellor(k, c, pct)
    \/ month_passes

SpecCommission == Init /\ [][NextCommission]_vars

\* The fee receipt routes.
NextFees ==
    \/ \E fees_in_list \in FeesLists : create_fees_receipts(fees_in_list)
    \/ \E id \in 1..MaxReceipts, amount_paid \in {0, 400} : update_fees_receipt(id, amount_paid)
    \/ \E id \in 1..MaxReceipts : delete_fees_receipt(id)

SpecFees == Init /\ [][NextFees]_vars

\* The roster routes of the classrooms table: an admin replaces the lists of
\* a class with the JSON lists of the form, deletes a class, and an admin,
\* a teacher or someone else asks to remove students.
StudentLists == UNION {[1..n -> {"s1", "x1"}] : n \in 0..2}

InitRoster == Start /\ route = "class_chat" /\ budget = MaxRosterRequests

NextRoster ==
    \/ \E r \in Classes, ids \in StudentLists \cup {<<"s1", "x1", "s1">>} :
           update_classroom_by_admin("a1", r, NoList, ids)
    \/ \E r \in Classes, ids \in {<<>>, <<"t1", "s1">>} :
           update_classroom_by_admin("a1", r, ids, NoList)
    \/ \E r \in Classes : delete_classroom_by_admin("a1", r)
    \/ \E r \in Classes, ids \in StudentLists, q \in {"a1", "t1", "s1"} :
           remove_students_from_class(r, ids, q)

SpecRoster == InitRoster /\ [][NextRoster]_vars

\* ------------------------------------------------------------ properties
\* The connections registered for a room.
Registered(reg, r) == Snapshot(reg, r)

\* Connection x has been sent the message event of row id.
ReceivedIn(box, x, id) == \E i \in DOMAIN box[x] : box[x][i] = Event("message", id)

\* A handler is inside the broadcast of row id.
BroadcastingIn(p, q, id) ==
    \E v \in Sessions : p[v] \in {"bcast", "stuck"} /\ q[v].id = id

\* The ids of the rows persisted so far, deleted since or not.
PersistedIds == 1..(nextId - 1)

\* C1: a connect by a user with no membership in the room ends closed, with
\* no history payload sent and no registry entry, then and ever after.
C1_AbsentConnectRejected ==
    \A s \in Sessions :
        (pc[s] # "new" /\ sess[s].auth = "Absent") =>
            /\ pc[s] = "closed"
            /\ \A i \in DOMAIN inbox[s] : inbox[s][i].type # "history"
            /\ s \notin Registered(active, sess[s].room)

\* C2: every message event delivered, and every broadcast under way on a
\* handler or on a thread, is of a row that has been persisted; a send whose
\* persist failed produces no message event.
C2_PersistBeforeBroadcast ==
    /\ \A s \in Sessions : \A i \in DOMAIN inbox[s] :
           inbox[s][i].type = "message" => inbox[s][i].id \in PersistedIds
    /\ \A s \in Sessions : pc[s] = "bcast" => bq[s].id \in PersistedIds
    /\ \A t \in threads : t.type = "message" => t.id \in PersistedIds

\* A message event has reached a connection, from a handler's broadcast or
\* from a thread's.
C2_Delivered ==
    \E s \in Sessions : \E i \in DOMAIN inbox[s] : inbox[s][i].type = "message"

\* C3: a row persisted for a send of a session carries the room and the user
\* the session connected with, whatever the payload says.
C3_SenderIsSessionUser ==
    \A i \in DOMAIN messages :
        messages[i].via # 0 =>
            /\ messages[i].sender = messages[i].by
            /\ messages[i].room = sess[messages[i].via].room

\* Row id was persisted by an HTTP POST, whose broadcast runs on a thread.
HttpPosted(id) == \E k \in DOMAIN messages : messages[k].id = id /\ messages[k].via = 0

\* C4: a connection that receives the events of two messages of a room
\* receives them in the order the rows were persisted; stated here for the
\* messages of the HTTP POST path, whose broadcasts run on threads.
C4_PersistOrderIsDeliveryOrder ==
    \A s \in Sessions : \A i, j \in DOMAIN inbox[s] :
        (/\ i < j
         /\ inbox[s][i].type = "message" /\ HttpPosted(inbox[s][i].id)
         /\ inbox[s][j].type = "message" /\ HttpPosted(inbox[s][j].id))
            => inbox[s][i].id < inbox[s][j].id

\* C5: when a handler's broadcast of a message ends, every connection that
\* was registered at the send and whose end is open has been sent the event,
\* also when the write to another connection failed.
C5_FailedSendDoesNotStopDelivery ==
    [][\A i \in DOMAIN messages' :
          LET m == messages'[i] IN
          (/\ m.via # 0
           /\ i \notin DOMAIN messages \/ BroadcastingIn(pc, bq, m.id)
           /\ ~BroadcastingIn(pc', bq', m.id))
              => \A x \in m.snap : alive[x] => ReceivedIn(inbox', x, m.id)]_vars

\* C6: in the modules whose broadcast catches a failed write, once a
\* handler's broadcast has ended and the handler of a connection the write
\* to which failed has ended too, that connection is not registered.
C6_FailedConnectionReaped ==
    route \in {"ws", "class_chat"} =>
        \A i \in DOMAIN messages :
            LET m == messages[i] IN
            (m.via # 0 /\ ~BroadcastingIn(pc, bq, m.id)) =>
                \A x \in m.snap :
                    (~ReceivedIn(inbox, x, m.id) /\ pc[x] = "closed")
                        => x \notin Registered(active, m.room)

\* C7: in the modules that check the role on a send, a row persisted for a
\* session's send is of a sender whose stored role, when the row was
\* written, was Privileged.
C7_RoleReadAtSend ==
    route \in {"ws", "chatroom"} =>
        \A i \in DOMAIN messages :
            messages[i].via # 0 => messages[i].auth = "Privileged"

\* C8: where only Privileged members may send (the sessions of "ws" and
\* "chatroom", POST /post-to of "class_chat"), no row is persisted for a
\* sender who is a Plain member when it is written.
C8_PlainNeverSends ==
    \A i \in DOMAIN messages :
        (route \in {"ws", "chatroom"}
            \/ (messages[i].via = 0 /\ messages[i].role # "student"))
            => messages[i].auth # "Plain"

\* C9: the sender of every persisted row was a member of the row's room
\* when the row was written.
C9_SenderWasMember ==
    \A i \in DOMAIN messages : messages[i].auth # "Absent"

\* C10: a frame that is not JSON, is no JSON object or has no content gets
\* its sender an error payload and nothing else: the session stays open and
\* registered, no other connection is written to, no row is persisted.
C10_MalformedFrameIsLocal ==
    [][\A s \in Sessions :
          (/\ nReq' = nReq + 1
           /\ lastReq'.by = s
           /\ lastReq'.kind \in {"badjson", "nonobj", "nocontent"})
              => /\ inbox' = Deliver(inbox, s, Event("error", 0))
                 /\ pc'[s] = "open"
                 /\ s \in Registered(active', sess[s].room)
                 /\ messages' = messages]_vars

\* Connection x has been sent the deleted event of row id.
DeletedIn(box, x, id) == \E i \in DOMAIN box[x] : box[x][i] = Event("deleted", id)

\* C11: a delete request by a Plain member of the room is answered
\* Forbidden (403) whether the message id exists in the room or not; the
\* table is unchanged, and no event is sent or handed to a thread.
C11_PlainDeleteForbidden ==
    [][(/\ nReq' = nReq + 1
        /\ lastReq'.kind = "delete"
        /\ lastReq'.auth = "Plain")
           => /\ lastReq'.status = "403"
              /\ messages' = messages
              /\ inbox' = inbox
              /\ threads' = threads]_vars

\* C12: a delete request by a Privileged member for a stored message of the
\* room removes the row, and its deleted event is on its way to every
\* connection registered in the room (sent, or handed to a broadcast
\* thread); no connection has a deleted event of a row that is still stored.
C12_PrivilegedDeleteBroadcasts ==
    [][\A r \in Rooms :
          /\ (/\ nReq' = nReq + 1
              /\ lastReq'.kind = "delete"
              /\ lastReq'.auth = "Privileged"
              /\ Stored(r, lastReq'.arg))
                 => /\ \A i \in DOMAIN messages' : messages'[i].id # lastReq'.arg
                    /\ \A x \in Registered(active', r) :
                           alive'[x] =>
                               \/ DeletedIn(inbox', x, lastReq'.arg)
                               \/ \E t \in threads' :
                                      /\ t.type = "deleted"
                                      /\ t.id = lastReq'.arg /\ t.room = r
          /\ \A x \in Sessions : \A i \in DOMAIN inbox'[x] :
                 inbox'[x][i].type = "deleted" =>
                     \A k \in DOMAIN messages' : messages'[k].id # inbox'[x][i].id]_vars

\* C13: the connection of a session whose handler has ended, for whatever
\* reason, is not registered.
C13_ClosedIsUnregistered ==
    \A s \in Sessions :
        pc[s] = "closed" => s \notin Registered(active, sess[s].room)

\* C14: every room that is a key of the registry has at least one
\* connection registered.
C14_NoEmptyRoomEntry ==
    \A r \in DOMAIN active : active[r] # <<>>

\* The number of times connection x has been shown row id: in a history
\* payload, or as a live message event.
Observations(box, x, id) ==
    Cardinality({i \in DOMAIN box[x] : box[x][i] = Event("message", id)})
    + Cardinality(UNION {{<<i, j>> : j \in {k \in DOMAIN box[x][i].ids : box[x][i].ids[k] = id}} :
                             i \in DOMAIN box[x]})

C16_HistoryIsFirstPayload ==
    \A s \in Sessions :
        sess[s].auth \in {"Plain", "Privileged"} =>
            /\ pc[s] \in {"open", "bcast"} =>
                   inbox[s] # <<>> /\ inbox[s][1].type = "history"
            /\ \A i \in DOMAIN inbox[s] :
                   inbox[s][i].type \in {"message", "deleted"} =>
                       inbox[s][1].type = "history"

\* The ids of the n most recently created rows of room r, oldest first.
MostRecent(msgs, r, n) ==
    LET rows == SelectSeq(msgs, LAMBDA m : m.room = r)
        k == Len(rows)
        m == IF n < k THEN n ELSE k
    IN  [j \in 1..m |-> rows[k - m + j].id]

\* C17: the history payload of a ws_routes connect, and the rows of a REST
\* history read with offset 0, are the min(limit, count) most recently
\* created rows of the room, oldest first.
C17_RecentIsNewestOldestFirst ==
    [][/\ \A s \in Sessions :
              (route = "ws" /\ pc[s] = "new" /\ pc'[s] = "open")
                  => inbox'[s][1] = History(MostRecent(messages, sess'[s].room, HistoryLimit))
       /\ (lastReq' # lastReq /\ lastReq'.kind = "history" /\ lastReq'.status = "200")
              => \A r \in Rooms : lastReq'.result = MostRecent(messages, r, lastReq'.arg)]_vars

\* C18: a history read that follows a history read with the same limit,
\* with no write to the table between them, returns the same rows in the
\* same order, also when rows share a timestamp.
C18_HistoryReadIsRepeatable ==
    [][(/\ lastReq.kind = "history" /\ lastReq.status = "200"
        /\ lastReq'.kind = "history" /\ lastReq'.status = "200"
        /\ lastReq'.arg = lastReq.arg
        /\ messages' = messages)
           => lastReq'.result = lastReq.result]_vars

\* C19: when the store rejects the row of a session's send, the sender is
\* sent an error payload and nothing else is written to any connection, no
\* row is stored, and the registry is as it was.
C19_RejectedAppendIsLocal ==
    [][\A s \in Sessions :
          (/\ nReq' = nReq + 1
           /\ lastReq'.by = s
           /\ lastReq'.status = "rejected")
              => /\ inbox' = Deliver(inbox, s, Event("error", 0))
                 /\ messages' = messages
                 /\ active' = active]_vars

\* C20: no broadcast copies the connections of a room while the removal of
\* a connection from that room's entry is under way.
C20_RegistryStepsExclusive ==
    [][\A t \in threads :
          (~t.started /\ t \notin threads')
              => \A s \in Sessions : ~(pc[s] = "unreg" /\ sess[s].room = t.room)]_vars

\* C22: once the Classroom row of a room is deleted, no connection whose end
\* is open is registered for the room.
C22_DeletedRoomHasNoConnection ==
    \A r \in Rooms :
        r \notin rooms => \A x \in Registered(active, r) : ~alive[x]

\* C23: a user has at most one role in a room: no user is both in the
\* members list and in the admins list of the room's classroom_members row.
C23_OneRolePerRoom ==
    \A r \in Rooms : memberRow[r].members \cap memberRow[r].admins = {}

\* The number of message events of row id connection x has been sent.
Copies(box, x, id) ==
    Cardinality({i \in DOMAIN box[x] : box[x][i] = Event("message", id)})

\* C24: when the broadcast of a session's accepted send ends, the sender,
\* whose end is open, has been sent the message event of its row exactly
\* once.
C24_SenderGetsItsMessageOnce ==
    [][\A i \in DOMAIN messages' :
          LET m == messages'[i] IN
          (/\ m.via # 0
           /\ i \notin DOMAIN messages \/ BroadcastingIn(pc, bq, m.id)
           /\ ~BroadcastingIn(pc', bq', m.id)
           /\ alive[m.via])
              => Copies(inbox', m.via, m.id) = 1]_vars

\* C26: when a handler's broadcast returns to the handler, every connection
\* that was registered when the broadcast started, is registered still and
\* has its end open has been sent the event, whatever connections were
\* registered or unregistered while the broadcast was suspended.
C26_BroadcastCoversStableConnections ==
    [][\A i \in DOMAIN messages' :
          LET m == messages'[i] IN
          (/\ m.via # 0
           /\ i \notin DOMAIN messages \/ BroadcastingIn(pc, bq, m.id)
           /\ ~BroadcastingIn(pc', bq', m.id)
           /\ pc'[m.via] = "open")
              => \A x \in m.snap \cap Registered(active', m.room) :
                     alive'[x] => ReceivedIn(inbox', x, m.id)]_vars

\* C21: a connection registered in a room when a session's message is
\* broadcast is eventually sent the message event, unless its own client has
\* closed it or stopped reading, also when a send to another connection of
\* the room never returns.
C21_StalledDoesNotBlockOthers ==
    \A x \in Sessions, id \in MessageIds :
        (\E i \in DOMAIN messages : messages[i].id = id /\ x \in messages[i].snap)
            ~> (ReceivedIn(inbox, x, id) \/ ~alive[x] \/ x \in stalled)

\* C25: a delete request by a Privileged requester for an id of which the
\* room holds no row (never created, deleted before, or of a row of another
\* room) is answered NotFound (404); the table is unchanged, and no deleted
\* event is sent or handed to a thread.
C25_MissingDeleteIsNotFound ==
    [][\A r \in Classes, id \in MessageIds, u \in Users :
          (/\ delete_chat_message(r, u, id) \/ delete_message(r, id, u)
           /\ GetRole(r, u) = "Privileged"
           /\ \A i \in DOMAIN messages : ~(messages[i].id = id /\ messages[i].room = r))
              => /\ lastReq'.status = "404"
                 /\ messages' = messages
                 /\ inbox' = inbox
                 /\ threads' = threads]_vars

\* A Privileged requester has been answered NotFound for an id that is
\* stored, as a row of the other classroom.
C25_OtherRoomIdNotFound ==
    /\ lastReq.kind = "delete" /\ lastReq.auth = "Privileged" /\ lastReq.status = "404"
    /\ \E i \in DOMAIN messages : messages[i].id = lastReq.arg

\* Every row of the table carries a code assigned to the row's counsellor.
CodesOwned(table) ==
    \A e \in DOMAIN table :
        /\ table[e].admission_code \in DOMAIN AdmissionCodes
        /\ AdmissionCodes[table[e].admission_code] = table[e].counsellor_id

\* C27: after every create or update request each stored admission enquiry
\* carries a code that is assigned to its counsellor, and a request that is
\* not answered with success (an unknown code, a code of another counsellor,
\* a counsellor change that keeps the old counsellor's code, an empty code)
\* leaves the table as it was.
C27_EnquiryCodeBelongsToCounsellor ==
    [][/\ CodesOwned(enquiries')
       /\ lastReq'.status \notin {"200", "201"} => enquiries' = enquiries]_vars

\* An update of a stored enquiry that would leave it with a code of another
\* counsellor has been answered 403.
C27_CounsellorChangeRejected ==
    /\ lastReq.kind = "update_enquiry" /\ lastReq.status = "403"
    /\ enquiries # <<>>

C29_BatchCreationAllOrNothing ==
    [][\A fees_in_list \in FeesLists :
          create_fees_receipts(fees_in_list) =>
              IF \/ fees_in_list = <<>>
                 \/ \E i \in DOMAIN fees_in_list :
                        fees_in_list[i].student_id # fees_in_list[1].student_id
                 \/ fees_in_list[1].student_id \notin Students
              THEN lastReq'.status \in {"400", "404"} /\ receipts' = receipts
              ELSE /\ Len(receipts') = Len(receipts) + Len(fees_in_list)
                   /\ SubSeq(receipts', 1, Len(receipts)) = receipts
                   /\ \A i \in DOMAIN fees_in_list :
                          LET row == receipts'[Len(receipts) + i] IN
                          /\ row # NoReceipt
                          /\ row.student_id = fees_in_list[1].student_id
                          /\ row.amount_due = fees_in_list[i].total_course_fees
                                                - fees_in_list[i].amount_paid]_vars

\* Property helper: the list without the ids of `gone`, in its order.
Without(ids, gone) == SelectSeq(ids, LAMBDA x : ~InList(x, gone))

\* C30: remove_students_from_class leaves in the classroom's student_ids the
\* ids that were not requested, in their order, and none of the requested
\* ones, with teacher_ids and admin_id as they were; a request for a class
\* that does not exist, or by someone who is neither the class admin nor one
\* of its teachers, is rejected and leaves the classroom unchanged.
C30_RemovesExactlyRequestedStudents ==
    [][\A r \in Classes, ids \in StudentLists, q \in {"a1", "t1", "s1"} :
          remove_students_from_class(r, ids, q) =>
              IF r \notin rooms
                 \/ ~(classroom[r].admin_id = q \/ InList(q, classroom[r].teacher_ids))
              THEN lastReq'.status \in {"403", "404"} /\ classroom' = classroom
              ELSE /\ classroom'[r].student_ids = Without(classroom[r].student_ids, ids)
                   /\ classroom'[r].teacher_ids = classroom[r].teacher_ids
                   /\ classroom'[r].admin_id = classroom[r].admin_id
                   /\ \A o \in Classes \ {r} : classroom'[o] = classroom[o]]_vars
====
